---- MODULE Spec2Model ----
(***************************************************************************)
(* A model of craft_planner.py: the State wrapper, the compiled recipes    *)
(* (make_checker / make_effector), make_goal_checker, graph, heuristic,    *)
(* create_path and the search loop.                                        *)
(*                                                                         *)
(* A State (an OrderedDict) is a sequence of <<item, quantity>> pairs: its *)
(* key order is part of its identity (State.__key is tuple(items())).      *)
(* A recipe name is a sequence of words; the substring test `tool in       *)
(* action` is membership of the tool's name among the words, which is the  *)
(* same test for the names used here (tool names are whole words and none  *)
(* is a substring of another word).                                        *)
(***************************************************************************)
EXTENDS Integers, Sequences, FiniteSets

\* ------------------------------------------------------------------ bounds
\* most rules in one catalog
MaxRules == 3
\* iterations of the search loop after which the clock has reached the deadline
MaxIter == 5
\* the time budget of a search that has one, in clock ticks
MaxLimit == 4
\* largest quantity of an item in the states graph is called on directly
MaxQty == 4
\* longest plan a returned path is compared with
MaxPlan == 4

\* float('inf'): larger than every finite cost the model can reach
Inf == 1000000

\* None, as a predecessor state and as a predecessor action
None == <<>>

Min(a, b) == IF a < b THEN a ELSE b

\* ------------------------------------------------------------------ State
\* Python's order of the item names (str.__lt__), as ranks
ItemOrder ==
  <<"bench", "furnace", "iron_axe", "iron_pickaxe", "plank", "stone_axe",
    "stone_pickaxe", "wood", "wooden_axe", "wooden_pickaxe">>

ItemRank(item) == CHOOSE i \in 1..Len(ItemOrder) : ItemOrder[i] = item

\* item in state
Has(state, item) == \E i \in 1..Len(state) : state[i][1] = item

\* state[item], for an item in state
Get(state, item) ==
  state[CHOOSE i \in 1..Len(state) : state[i][1] = item][2]

\* state[item] = v: an existing key keeps its place, a new key goes last
Put(state, item, v) ==
  IF Has(state, item)
  THEN [i \in 1..Len(state) |->
          IF state[i][1] = item THEN <<item, v>> ELSE state[i]]
  ELSE Append(state, <<item, v>>)

\* State.copy: a new State with the same items in the same order
copy(state) == [i \in 1..Len(state) |-> state[i]]

\* one (key, value) pair against another, as Python compares tuples
PairLt(p, q) ==
  IF p[1] # q[1] THEN ItemRank(p[1]) < ItemRank(q[1]) ELSE p[2] < q[2]

\* State.__lt__: tuple(self.items()) < tuple(other.items())
StateLt(a, b) ==
  LET n == Min(Len(a), Len(b))
      diff == {i \in 1..n : a[i] # b[i]}
  IN IF diff = {}
     THEN Len(a) < Len(b)
     ELSE LET d == CHOOSE i \in diff : \A j \in diff : i <= j
          IN PairLt(a[d], b[d])

\* State({key: 0 for key in Items}) followed by update(Initial)
RECURSIVE update(_, _, _)
update(state, other, i) ==
  IF i > Len(other) THEN state
  ELSE update(Put(state, other[i][1], other[i][2]), other, i + 1)

InitialState(items, initial) ==
  update([i \in 1..Len(items) |-> <<items[i], 0>>], initial, 1)

\* every quantity of a state is >= 0
NonNegative(state) == \A i \in 1..Len(state) : state[i][2] >= 0

\* ------------------------------------------------------------ rule compiler
\* the Requires loop of check: "KeyError" where state[item] fails
RECURSIVE RequiresLoop(_, _, _)
RequiresLoop(req, state, i) ==
  IF i > Len(req) THEN "pass"
  ELSE IF ~Has(state, req[i]) THEN "KeyError"
  ELSE IF Get(state, req[i]) < 1 THEN "False"
  ELSE RequiresLoop(req, state, i + 1)

\* the Consumes loop of check
RECURSIVE ConsumesLoop(_, _, _)
ConsumesLoop(con, state, i) ==
  IF i > Len(con) THEN "pass"
  ELSE IF ~Has(state, con[i][1]) \/ Get(state, con[i][1]) < con[i][2] THEN "False"
  ELSE ConsumesLoop(con, state, i + 1)

\* check without the test of the consumed amounts
check_no_consumes(rule, state) ==
  LET r == RequiresLoop(rule.Requires, state, 1)
  IN IF r # "pass" THEN r ELSE "True"

\* make_checker(rule)(state): "True", "False" or "KeyError"
check(rule, state) ==
  LET r == RequiresLoop(rule.Requires, state, 1)
  IN IF r # "pass" THEN r
     ELSE IF ConsumesLoop(rule.Consumes, state, 1) # "pass" THEN "False"
     ELSE "True"

\* the Produces loop of effect: membership is tested in the input state
RECURSIVE ProducesLoop(_, _, _, _)
ProducesLoop(pro, state, next_state, i) ==
  IF i > Len(pro) THEN next_state
  ELSE ProducesLoop(pro, state,
         IF Has(state, pro[i][1])
         THEN Put(next_state, pro[i][1], Get(next_state, pro[i][1]) + pro[i][2])
         ELSE Put(next_state, pro[i][1], pro[i][2]),
         i + 1)

\* the Consumes loop of effect
RECURSIVE SubtractLoop(_, _, _)
SubtractLoop(con, next_state, i) ==
  IF i > Len(con) THEN next_state
  ELSE SubtractLoop(con,
         Put(next_state, con[i][1], Get(next_state, con[i][1]) - con[i][2]),
         i + 1)

\* make_effector(rule)(state), for a state that passes the rule's check
effect(rule, state) ==
  SubtractLoop(rule.Consumes,
               ProducesLoop(rule.Produces, state, copy(state), 1), 1)

\* next_state bound to the argument itself, not to a copy of it: the two
\* names denote one object, which the loops write
effect_objects_alias(rule, state) ==
  [state |-> effect(rule, state), next_state |-> effect(rule, state)]

\* the two objects when effect returns: the argument, which no statement of
\* effect writes (next_state is state.copy()), and the State returned
effect_objects(rule, state) ==
  [state |-> state, next_state |-> effect(rule, state)]

\* Recipe(name, checker, effector, rule['Time']): the closures keep the rule
Recipe(rule) == [name |-> rule.name, rule |-> rule, cost |-> rule.Time]

\* -------------------------------------------------------------- goal tester
\* is_goal with > where the code has >=
is_goal_strict(goal, state) ==
  \A i \in 1..Len(goal) :
    Has(state, goal[i][1]) /\ Get(state, goal[i][1]) > goal[i][2]

\* make_goal_checker(goal)(state)
is_goal(goal, state) ==
  \A i \in 1..Len(goal) :
    Has(state, goal[i][1]) /\ Get(state, goal[i][1]) >= goal[i][2]

\* ---------------------------------------------------------------- heuristic
tools ==
  <<"bench", "furnace", "iron_axe", "iron_pickaxe", "stone_axe",
    "stone_pickaxe", "wooden_axe", "wooden_pickaxe">>

\* `tool in action`
InAction(tool, action) == \E i \in 1..Len(action) : action[i] = tool

\* the loop over tools: the first tool that decides, "KeyError" where
\* state[tool] fails, "fallthrough" when no tool decides
RECURSIVE ToolLoop(_, _, _)
ToolLoop(action, state, i) ==
  IF i > Len(tools) THEN "fallthrough"
  ELSE IF ~Has(state, tools[i]) THEN "KeyError"
  ELSE IF Get(state, tools[i]) > 1 THEN "inf"
  ELSE IF InAction(tools[i], action) THEN "zero"
  ELSE ToolLoop(action, state, i + 1)

\* the tier tests that follow the loop
TierTests(action, state) ==
  LET pick == IF Get(state, "iron_pickaxe") > 0
              THEN InAction("stone_pickaxe", action) \/ InAction("wooden_pickaxe", action)
              ELSE IF Get(state, "stone_pickaxe") > 0
              THEN InAction("wooden_pickaxe", action)
              ELSE FALSE
      axe  == IF Get(state, "iron_axe") > 0
              THEN InAction("stone_axe", action) \/ InAction("wooden_axe", action)
              ELSE IF Get(state, "stone_axe") > 0
              THEN InAction("wooden_axe", action)
              ELSE FALSE
  IN IF pick \/ axe THEN "inf" ELSE "zero"

\* heuristic(action, state): "inf", "zero" or "KeyError"
heuristic(action, state) ==
  LET t == ToolLoop(action, state, 1)
  IN IF t = "fallthrough" THEN TierTests(action, state) ELSE t

\* the heuristic argument of search: the reference heuristic, or one that
\* returns 0 for every transition
HeuristicArgs == {"heuristic", "zero"}

Estimate(h, action, state) ==
  IF h = "zero" THEN "zero" ELSE heuristic(action, state)

\* the number an outcome of the heuristic stands for
EstimateValue(outcome) == IF outcome = "inf" THEN Inf ELSE 0

\* float addition and comparison on costs: inf + x = inf
Add(a, b) == IF a >= Inf \/ b >= Inf THEN Inf ELSE a + b

\* -------------------------------------------------------------------- graph
\* the generator stuck on the first recipe
GraphAt_first(recipes, state, i) ==
  LET r == recipes[1]
      c == check(r.rule, state)
  IN [raised |-> c = "KeyError",
      yields |-> c = "True",
      triple |-> IF c = "True"
                 THEN <<r.name, effect(r.rule, state), r.cost>>
                 ELSE <<>>]

\* one step of the generator graph(state): the recipe at position i
GraphAt(recipes, state, i) ==
  LET r == recipes[i]
      c == check(r.rule, state)
  IN [raised |-> c = "KeyError",
      yields |-> c = "True",
      triple |-> IF c = "True"
                 THEN <<r.name, effect(r.rule, state), r.cost>>
                 ELSE <<>>]

\* ------------------------------------------------------------------- inputs
\* Crafting['Recipes']: the rules a catalog is drawn from
RulePool ==
  << [name |-> <<"punch", "for", "wood">>, Requires |-> <<>>, Consumes |-> <<>>,
      Produces |-> << <<"wood", 1>> >>, Time |-> 4],
     [name |-> <<"chop", "for", "wood">>, Requires |-> <<>>, Consumes |-> <<>>,
      Produces |-> << <<"wood", 1>> >>, Time |-> 1],
     [name |-> <<"craft", "plank">>, Requires |-> <<>>,
      Consumes |-> << <<"wood", 1>> >>,
      Produces |-> << <<"plank", 4>> >>, Time |-> 1],
     [name |-> <<"uncraft", "plank">>, Requires |-> <<>>,
      Consumes |-> << <<"plank", 4>> >>,
      Produces |-> << <<"wood", 1>> >>, Time |-> 0],
     [name |-> <<"craft", "bench">>, Requires |-> <<>>,
      Consumes |-> << <<"plank", 4>> >>,
      Produces |-> << <<"bench", 1>> >>, Time |-> 1],
     [name |-> <<"craft", "wooden_axe", "at", "bench">>, Requires |-> <<"bench">>,
      Consumes |-> << <<"plank", 3>> >>,
      Produces |-> << <<"wooden_axe", 1>> >>, Time |-> 1],
     [name |-> <<"wooden_axe", "for", "wood">>, Requires |-> <<"wooden_axe">>,
      Consumes |-> <<>>,
      Produces |-> << <<"wood", 1>> >>, Time |-> 2] >>

\* the k-th smallest element of a set of numbers
Nth(S, k) == CHOOSE x \in S : Cardinality({y \in S : y < x}) = k - 1

\* the rules of RulePool at the positions S, in declared order
RulesAt(S) == [k \in 1..Cardinality(S) |-> RulePool[Nth(S, k)]]

Catalogs ==
  {RulesAt(S) : S \in {T \in SUBSET (1..Len(RulePool)) :
                         Cardinality(T) >= 1 /\ Cardinality(T) <= MaxRules}}

\* Crafting['Items']: every tool and material, or the two materials alone
ItemLists == {ItemOrder, <<"plank", "wood">>}

\* Crafting['Initial']
Initials == {<<>>, << <<"wood", 1>> >>, << <<"plank", 8>> >>}

\* Crafting['Goal']
Goals == {<< <<"plank", 4>> >>, << <<"bench", 2>> >>, << <<"wood", 2>> >>}

\* a rule file of its own: a second furnace is held from the start, one rule
\* is named after no tool, and one rule consumes and produces the same item
SawmillRules ==
  << [name |-> <<"saw", "at", "bench">>, Requires |-> <<>>,
      Consumes |-> << <<"wood", 1>> >>,
      Produces |-> << <<"plank", 1>> >>, Time |-> 1],
     [name |-> <<"press">>, Requires |-> <<>>,
      Consumes |-> << <<"plank", 1>> >>,
      Produces |-> << <<"plank", 2>> >>, Time |-> 1],
     [name |-> <<"mill", "at", "bench">>, Requires |-> <<>>,
      Consumes |-> << <<"wood", 1>> >>,
      Produces |-> << <<"plank", 2>> >>, Time |-> 5],
     [name |-> <<"haul", "at", "bench">>, Requires |-> <<>>,
      Consumes |-> << <<"wood", 1>> >>,
      Produces |-> << <<"plank", 3>> >>, Time |-> 9] >>

SawmillCrafting ==
  [Items |-> ItemOrder,
   Initial |-> << <<"furnace", 2>>, <<"wood", 1>> >>,
   Goal |-> << <<"plank", 4>> >>,
   Recipes |-> SawmillRules]

\* the limit argument of search: no budget at all, or MaxLimit ticks
Limits == {0, MaxLimit}

\* -------------------------------------------------------------------- state
VARIABLES
  Crafting,       \* the loaded rule file: Items, Initial, Goal, Recipes
  hname,          \* the heuristic passed to search
  limit,          \* the limit passed to search
  pc,             \* where the program is
  all_recipes,    \* the compiled recipes
  state,          \* the initial state built by the main block
  now,            \* the last reading of the clock
  start_time,
  queue,          \* the heap, a sequence of [prio, state] entries
  pred,
  pred_actions,
  path_cost,
  visited_count,
  curr_cost,
  curr_state,
  ri,             \* the position of the generator graph(curr_state)
  path,           \* create_path's list
  last_state,     \* create_path's cursor
  result,         \* what search returned
  error,          \* the exception that ended the program, if any
  call            \* a direct call of graph (twice on one state) or of heuristic

vars ==
  <<Crafting, hname, limit, pc, all_recipes, state, now, start_time, queue,
    pred, pred_actions, path_cost, visited_count, curr_cost, curr_state, ri,
    path, last_state, result, error, call>>

inputs == <<Crafting, hname, limit>>
tables == <<pred, pred_actions, path_cost>>
walk   == <<path, last_state>>

\* the values search can return
NoPlan == [kind |-> "None", path |-> <<>>]
\* an empty path handed back as None
Plan_falsy(p) ==
  IF p = <<>> THEN [kind |-> "None", path |-> <<>>] ELSE [kind |-> "path", path |-> p]
Plan(p) == [kind |-> "path", path |-> p]
Pending == [kind |-> "pending", path |-> <<>>]

\* no direct call of graph is under way
NoCall == [arg |-> None, pos |-> 0, pass |-> 0, out1 |-> <<>>, out2 |-> <<>>]

\* the loop of the main block that compiles the rules
Build(rules) == [i \in 1..Len(rules) |-> Recipe(rules[i])]

Init ==
  /\ call = NoCall
  /\ Crafting \in [Items : ItemLists, Initial : Initials, Goal : Goals,
                   Recipes : Catalogs] \cup {SawmillCrafting}
  /\ hname \in HeuristicArgs
  /\ limit \in Limits
  /\ pc = "main"
  /\ all_recipes = <<>>
  /\ state = None
  /\ now = 0
  /\ start_time = 0
  /\ queue = <<>>
  /\ pred = <<>>
  /\ pred_actions = <<>>
  /\ path_cost = <<>>
  /\ visited_count = 0
  /\ curr_cost = 0
  /\ curr_state = None
  /\ ri = 0
  /\ path = <<>>
  /\ last_state = None
  /\ result = Pending
  /\ error = "none"

\* ------------------------------------------------------------- main block
\* build the rules, the goal checker and the initial state
Main ==
  /\ pc = "main"
  /\ all_recipes' = Build(Crafting.Recipes)
  /\ state' = InitialState(Crafting.Items, Crafting.Initial)
  /\ pc' = "search"
  /\ UNCHANGED <<inputs, call, now, start_time, queue, tables, visited_count,
                 curr_cost, curr_state, ri, walk, result, error>>

\* ------------------------------------------------------------------- heap
\* the comparison of the priorities turned round
EntryLt_rev(e, f) ==
  \/ e.prio > f.prio
  \/ e.prio = f.prio /\ e.state # f.state /\ StateLt(e.state, f.state)

\* (priority, state) tuples as Python compares them
EntryLt(e, f) ==
  \/ e.prio < f.prio
  \/ e.prio = f.prio /\ e.state # f.state /\ StateLt(e.state, f.state)

heappush(q, e) == Append(q, e)

\* the position of the entry heappop returns: a smallest one
MinIndex(q) ==
  CHOOSE i \in 1..Len(q) : \A j \in 1..Len(q) : ~EntryLt(q[j], q[i])

Remove(q, i) == [k \in 1..(Len(q) - 1) |-> IF k < i THEN q[k] ELSE q[k + 1]]

\* an assignment that changes the keys already there and adds none
Store_nokey(f, k, v) == [x \in DOMAIN f |-> IF x = k THEN v ELSE f[x]]

\* dict[key] = value
Store(f, k, v) == [x \in (DOMAIN f) \cup {k} |-> IF x = k THEN v ELSE f[x]]

\* ------------------------------------------------------------------ search
\* the entry of search: the clock is read and the tables are seeded
SearchInit ==
  /\ pc = "search"
  /\ start_time' = now
  /\ queue' = <<[prio |-> 0, state |-> state]>>
  /\ pred' = Store(<<>>, state, None)
  /\ pred_actions' = Store(<<>>, state, None)
  /\ path_cost' = Store(<<>>, state, 0)
  /\ visited_count' = 1
  /\ pc' = "loop"
  /\ UNCHANGED <<inputs, call, all_recipes, state, now, curr_cost, curr_state, ri,
                 walk, result, error>>

\* what time() can return at the loop test: the clock does not go back, and
\* after MaxIter iterations it has reached the deadline
Readings ==
  LET deadline == IF now > start_time + limit THEN now ELSE start_time + limit
  IN IF visited_count > MaxIter THEN {deadline}
     ELSE {now, Min(now + 1, deadline)}

\* the loop test with <= where the code has <
InTime_le(t, start, lim) == t - start <= lim

\* the loop test: time() - start_time < limit
InTime(t, start, lim) == t - start < lim

\* the loop test fails: the search reports the failure and returns None
Timeout ==
  /\ pc = "loop"
  /\ \E t \in Readings :
       /\ ~InTime(t, start_time, limit)
       /\ now' = t
  /\ pc' = "failed"
  /\ result' = NoPlan
  /\ UNCHANGED <<inputs, call, all_recipes, state, start_time, queue, tables,
                 visited_count, curr_cost, curr_state, ri, walk, error>>

\* the loop test passes and heappop returns the smallest entry
Pop ==
  /\ pc = "loop"
  /\ queue # <<>>
  /\ \E t \in Readings :
       /\ InTime(t, start_time, limit)
       /\ now' = t
  /\ visited_count' = visited_count + 1
  /\ LET i == MinIndex(queue)
     IN /\ curr_cost' = queue[i].prio
        /\ curr_state' = queue[i].state
        /\ queue' = Remove(queue, i)
  /\ pc' = "popped"
  /\ UNCHANGED <<inputs, call, all_recipes, state, start_time, tables, ri, walk,
                 result, error>>

\* the loop test passes and heappop finds the heap empty: IndexError
PopEmpty ==
  /\ pc = "loop"
  /\ queue = <<>>
  /\ \E t \in Readings :
       /\ InTime(t, start_time, limit)
       /\ now' = t
  /\ visited_count' = visited_count + 1
  /\ pc' = "crashed"
  /\ error' = "IndexError"
  /\ UNCHANGED <<inputs, call, all_recipes, state, start_time, queue, tables,
                 curr_cost, curr_state, ri, walk, result>>

\* is_goal(curr_state) holds: create_path is entered
GoalFound ==
  /\ pc = "popped"
  /\ is_goal(Crafting.Goal, curr_state)
  /\ path' = <<>>
  /\ last_state' = curr_state
  /\ pc' = "create_path"
  /\ UNCHANGED <<inputs, call, all_recipes, state, now, start_time, queue, tables,
                 visited_count, curr_cost, curr_state, ri, result, error>>

\* is_goal(curr_state) fails: graph(curr_state) is started
Expand ==
  /\ pc = "popped"
  /\ ~is_goal(Crafting.Goal, curr_state)
  /\ ri' = 1
  /\ pc' = "expand"
  /\ UNCHANGED <<inputs, call, all_recipes, state, now, start_time, queue, tables,
                 visited_count, curr_cost, curr_state, walk, result, error>>

\* the transition the generator is about to consider, and search's locals
Gen == GraphAt(all_recipes, curr_state, ri)
action == Gen.triple[1]
new_state == Gen.triple[2]
new_cost == Gen.triple[3]
\* the cost of the rule alone, the cost so far left out
pathcost_rule_only == new_cost
\* pathcost = curr_cost + new_cost
pathcost == Add(curr_cost, new_cost)
estimate == Estimate(hname, action, new_state)
total_est == Add(pathcost, EstimateValue(estimate))

\* every transition is recorded, whatever its cost
Improves_always(s, cost) == TRUE

\* the test that guards the update of the tables and the push
Improves(s, cost) == s \notin DOMAIN pred \/ cost < path_cost[s]

\* the generator is exhausted: back to the loop test
ExpandDone ==
  /\ pc = "expand"
  /\ ri > Len(all_recipes)
  /\ pc' = "loop"
  /\ UNCHANGED <<inputs, call, all_recipes, state, now, start_time, queue, tables,
                 visited_count, curr_cost, curr_state, ri, walk, result, error>>

\* the recipe's check looks up an item the state does not have: KeyError
CheckRaises ==
  /\ pc = "expand"
  /\ ri <= Len(all_recipes)
  /\ Gen.raised
  /\ pc' = "crashed"
  /\ error' = "KeyError"
  /\ UNCHANGED <<inputs, call, all_recipes, state, now, start_time, queue, tables,
                 visited_count, curr_cost, curr_state, ri, walk, result>>

\* the recipe's check fails: the generator goes on to the next recipe
Skip ==
  /\ pc = "expand"
  /\ ri <= Len(all_recipes)
  /\ ~Gen.raised /\ ~Gen.yields
  /\ ri' = ri + 1
  /\ UNCHANGED <<inputs, call, all_recipes, state, now, start_time, queue, tables,
                 visited_count, curr_cost, curr_state, pc, walk, result, error>>

\* the heuristic looks up a tool the new state does not have: KeyError
HeuristicRaises ==
  /\ pc = "expand"
  /\ ri <= Len(all_recipes)
  /\ Gen.yields
  /\ estimate = "KeyError"
  /\ pc' = "crashed"
  /\ error' = "KeyError"
  /\ UNCHANGED <<inputs, call, all_recipes, state, now, start_time, queue, tables,
                 visited_count, curr_cost, curr_state, ri, walk, result>>

\* the body of the for loop for one generated transition
Relax ==
  /\ pc = "expand"
  /\ ri <= Len(all_recipes)
  /\ Gen.yields
  /\ estimate # "KeyError"
  /\ IF Improves(new_state, pathcost)
     THEN /\ pred' = Store(pred, new_state, curr_state)
          /\ pred_actions' = Store(pred_actions, new_state, action)
          /\ path_cost' = Store(path_cost, new_state, pathcost)
          /\ queue' = heappush(queue, [prio |-> total_est, state |-> new_state])
     ELSE UNCHANGED <<tables, queue>>
  /\ ri' = ri + 1
  /\ curr_state' = effect_objects(all_recipes[ri].rule, curr_state).state
  /\ UNCHANGED <<inputs, call, all_recipes, state, now, start_time, visited_count,
                 curr_cost, pc, walk, result, error>>

\* ------------------------------------------------------------- create_path
\* reversed(path) left out
Reverse_none(s) == s

Reverse(s) == [i \in 1..Len(s) |-> s[Len(s) + 1 - i]]

\* one turn of the while loop
CreatePathStep ==
  /\ pc = "create_path"
  /\ pred_actions[last_state] # None
  /\ path' = Append(path, <<last_state, pred_actions[last_state]>>)
  /\ last_state' = pred[last_state]
  /\ UNCHANGED <<inputs, call, pc, all_recipes, state, now, start_time, queue, tables,
                 visited_count, curr_cost, curr_state, ri, result, error>>

\* the while loop ends: the reversed list is what search returns
CreatePathReturn ==
  /\ pc = "create_path"
  /\ pred_actions[last_state] = None
  /\ result' = Plan(Reverse(path))
  /\ pc' = "succeeded"
  /\ UNCHANGED <<inputs, call, all_recipes, state, now, start_time, queue, tables,
                 visited_count, curr_cost, curr_state, ri, walk, error>>

Next ==
  \/ Main
  \/ SearchInit
  \/ Timeout
  \/ Pop
  \/ PopEmpty
  \/ GoalFound
  \/ Expand
  \/ ExpandDone
  \/ CheckRaises
  \/ Skip
  \/ HeuristicRaises
  \/ Relax
  \/ CreatePathStep
  \/ CreatePathReturn

Spec == Init /\ [][Next]_vars

\* ------------------------------------------------- graph called directly
\* the quantities of the states graph is called on
QtyChoices == {0, 1, MaxQty}

\* the item lists of those states
TestItemLists == {<<"plank", "wood">>, <<"bench", "plank", "wood", "wooden_axe">>}

\* every state over an item list with quantities from QtyChoices
TestStates(items) ==
  {[i \in 1..Len(items) |-> <<items[i], q[i]>>] :
     q \in [1..Len(items) -> QtyChoices]}

\* the rules are compiled and graph is about to be called, twice, on one state
GraphInit ==
  /\ \E items \in TestItemLists, rules \in Catalogs :
       /\ Crafting = [Items |-> items, Initial |-> <<>>, Goal |-> <<>>,
                      Recipes |-> rules]
       /\ all_recipes = Build(rules)
       /\ \E s \in TestStates(items) :
            call = [arg |-> s, pos |-> 1, pass |-> 1, out1 |-> <<>>, out2 |-> <<>>]
  /\ hname = "zero"
  /\ limit = 0
  /\ pc = "graph"
  /\ state = None
  /\ now = 0
  /\ start_time = 0
  /\ queue = <<>>
  /\ pred = <<>>
  /\ pred_actions = <<>>
  /\ path_cost = <<>>
  /\ visited_count = 0
  /\ curr_cost = 0
  /\ curr_state = None
  /\ ri = 0
  /\ path = <<>>
  /\ last_state = None
  /\ result = Pending
  /\ error = "none"

search_vars ==
  <<state, now, start_time, queue, pred, pred_actions, path_cost,
    visited_count, curr_cost, curr_state, ri, path, last_state, result>>

\* the recipe the generator is about to consider
CallGen == GraphAt(all_recipes, call.arg, call.pos)

\* the recipe's check passes: effect is called and the triple is yielded
GraphYield ==
  /\ pc = "graph"
  /\ call.pos <= Len(all_recipes)
  /\ CallGen.yields
  /\ LET after == effect_objects(all_recipes[call.pos].rule, call.arg).state
     IN call' = IF call.pass = 1
                THEN [call EXCEPT !.arg = after, !.pos = @ + 1,
                                  !.out1 = Append(@, CallGen.triple)]
                ELSE [call EXCEPT !.arg = after, !.pos = @ + 1,
                                  !.out2 = Append(@, CallGen.triple)]
  /\ UNCHANGED <<inputs, pc, all_recipes, search_vars, error>>

\* the recipe's check fails: nothing is yielded for it
GraphSkip ==
  /\ pc = "graph"
  /\ call.pos <= Len(all_recipes)
  /\ ~CallGen.raised /\ ~CallGen.yields
  /\ call' = [call EXCEPT !.pos = @ + 1]
  /\ UNCHANGED <<inputs, pc, all_recipes, search_vars, error>>

\* the recipe's check raises KeyError: the generator ends with it
GraphRaise ==
  /\ pc = "graph"
  /\ call.pos <= Len(all_recipes)
  /\ CallGen.raised
  /\ pc' = "graph_raised"
  /\ error' = "KeyError"
  /\ UNCHANGED <<inputs, call, all_recipes, search_vars>>

\* the generator is exhausted: the second call starts, or both are over
GraphExhausted ==
  /\ pc = "graph"
  /\ call.pos > Len(all_recipes)
  /\ IF call.pass = 1
     THEN /\ call' = [call EXCEPT !.pos = 1, !.pass = 2]
          /\ pc' = pc
     ELSE /\ pc' = "graph_done"
          /\ call' = call
  /\ UNCHANGED <<inputs, all_recipes, search_vars, error>>

GraphNext == GraphYield \/ GraphSkip \/ GraphRaise \/ GraphExhausted

\* the program run from its main block, or graph called directly
FnSpec == (Init \/ GraphInit) /\ [][Next \/ GraphNext]_vars

\* --------------------------------------------- heuristic called directly
\* the quantities of a tool in the states heuristic is called on: none, one,
\* more than one
HeldChoices == {0, 1, 2}

\* every state over the full item list with tool quantities from HeldChoices,
\* and a state over an item list that lacks the tools
ToolStates ==
  {[i \in 1..Len(ItemOrder) |->
      <<ItemOrder[i],
        IF \E k \in 1..Len(tools) : tools[k] = ItemOrder[i]
        THEN q[CHOOSE k \in 1..Len(tools) : tools[k] = ItemOrder[i]]
        ELSE 0>>] :
     q \in [1..Len(tools) -> HeldChoices]}
  \cup {<< <<"plank", 0>>, <<"wood", 1>> >>}

\* the action names heuristic is called with
ActionNames ==
  {<<"punch", "for", "wood">>,
   <<"craft", "bench">>,
   <<"craft", "furnace", "at", "bench">>,
   <<"craft", "wooden_axe", "at", "bench">>,
   <<"craft", "wooden_pickaxe", "at", "bench">>,
   <<"craft", "stone_pickaxe", "at", "bench">>,
   <<"wooden_axe", "for", "wood">>,
   <<"wooden_pickaxe", "for", "cobble">>}

\* heuristic is about to be called on an action name and a state
HeuristicInit ==
  /\ \E a \in ActionNames, s \in ToolStates :
       call = [action |-> a, arg |-> s, out |-> "none"]
  /\ Crafting = [Items |-> ItemOrder, Initial |-> <<>>, Goal |-> <<>>,
                 Recipes |-> <<>>]
  /\ all_recipes = <<>>
  /\ hname = "heuristic"
  /\ limit = 0
  /\ pc = "heuristic"
  /\ state = None
  /\ now = 0
  /\ start_time = 0
  /\ queue = <<>>
  /\ pred = <<>>
  /\ pred_actions = <<>>
  /\ path_cost = <<>>
  /\ visited_count = 0
  /\ curr_cost = 0
  /\ curr_state = None
  /\ ri = 0
  /\ path = <<>>
  /\ last_state = None
  /\ result = Pending
  /\ error = "none"

\* heuristic returns float('inf') or 0
HeuristicReturn ==
  /\ pc = "heuristic"
  /\ heuristic(call.action, call.arg) # "KeyError"
  /\ call' = [call EXCEPT !.out = heuristic(call.action, call.arg)]
  /\ pc' = "heuristic_returned"
  /\ UNCHANGED <<inputs, all_recipes, search_vars, error>>

\* state[tool] fails on a state that lacks the tool
HeuristicKeyError ==
  /\ pc = "heuristic"
  /\ heuristic(call.action, call.arg) = "KeyError"
  /\ pc' = "heuristic_raised"
  /\ error' = "KeyError"
  /\ UNCHANGED <<inputs, call, all_recipes, search_vars>>

HeuristicNext == HeuristicReturn \/ HeuristicKeyError

\* heuristic called directly on one transition
HeuristicSpec == HeuristicInit /\ [][HeuristicNext]_vars

\* ------------------------------------------------------------------ claims
\* the search has returned a path
Returned == pc = "succeeded" /\ result.kind = "path"

\* the quantity a state holds of an item, 0 for an item it does not have
Qty(s, item) == IF Has(s, item) THEN Get(s, item) ELSE 0

\* the goal condition of the rule file, read off the quantities
GoalHolds(s) ==
  \A i \in 1..Len(Crafting.Goal) :
    Has(s, Crafting.Goal[i][1]) /\ Qty(s, Crafting.Goal[i][1]) >= Crafting.Goal[i][2]

\* the rule of the catalog with a given name
RuleNamed(name) ==
  Crafting.Recipes[CHOOSE i \in 1..Len(Crafting.Recipes) :
                     Crafting.Recipes[i].name = name]

\* the state before the i-th step of a path
Before(p, i) == IF i = 1 THEN state ELSE p[i - 1][1]

\* the sum of the costs of the first i actions of a path
RECURSIVE CostUpTo(_, _)
CostUpTo(p, i) ==
  IF i = 0 THEN 0 ELSE CostUpTo(p, i - 1) + RuleNamed(p[i][2]).Time

\* C1: when the queue is empty at a pop before any goal state was popped, the
\* search ends FAILED with the 'no plan' value, never in an exception.
C1_EmptyQueueEndsFailed ==
  (queue = <<>> /\ pc \in {"failed", "crashed"} /\ error # "KeyError")
    => (pc = "failed" /\ result = NoPlan /\ error = "none")

\* C2: a transition whose heuristic estimate is infinite is never pushed,
\* whatever its candidate cost and whether or not its state was recorded.
C2_InfiniteNeverPushed ==
  [][(pc = "expand" /\ ri <= Len(all_recipes) /\ Gen.yields /\ estimate = "inf")
       => queue' = queue]_vars

\* C3: no step of a returned path is a transition for which the heuristic
\* returned infinite.
C3_NoPrunedEdgeInPath ==
  Returned =>
    \A i \in 1..Len(result.path) :
      Estimate(hname, result.path[i][2], result.path[i][1]) # "inf"

\* C4: the last state of a returned path satisfies the goal, and no earlier
\* state of the path, nor the initial state of a non-empty path, does.
C4_GoalOnlyAtEnd ==
  Returned =>
    LET p == result.path
    IN /\ GoalHolds(curr_state)
       /\ p # <<>> =>
            /\ p[Len(p)][1] = curr_state
            /\ ~GoalHolds(state)
            /\ \A i \in 1..(Len(p) - 1) : ~GoalHolds(p[i][1])

\* a returned path of two steps or more
C4_Witness == Returned /\ Len(result.path) >= 2

\* C5: a returned path is an executable plan, oldest step first: each action's
\* precondition holds in the state before it, each state is the effect of its
\* action on the state before it, and the initial state is not in the path.
C5_PathIsExecutablePlan ==
  Returned =>
    LET p == result.path
    IN \A i \in 1..Len(p) :
         /\ \E k \in 1..Len(Crafting.Recipes) : Crafting.Recipes[k].name = p[i][2]
         /\ check(RuleNamed(p[i][2]), Before(p, i)) = "True"
         /\ p[i][1] = effect(RuleNamed(p[i][2]), Before(p, i))
         /\ p[i][1] # state

\* a returned path of two steps whose actions differ
C5_Witness ==
  Returned /\ Len(result.path) >= 2 /\ result.path[1][2] # result.path[2][2]

\* a goal state is reachable from s by at most depth applicable rules whose
\* costs sum to at most budget
RECURSIVE GoalWithin(_, _, _)
GoalWithin(s, budget, depth) ==
  /\ budget >= 0
  /\ \/ GoalHolds(s)
     \/ /\ depth > 0
        /\ \E k \in 1..Len(Crafting.Recipes) :
             LET r == Crafting.Recipes[k]
             IN /\ check(r, s) = "True"
                /\ GoalWithin(effect(r, s), budget - r.Time, depth - 1)

\* C6: with a heuristic that returns 0 for every transition, no plan of at most
\* MaxPlan applicable rules reaches a goal state from the initial state at a
\* smaller total cost than a returned path.
C6_ReturnedPathIsCheapest ==
  (Returned /\ hname = "zero") =>
    ~GoalWithin(state, CostUpTo(result.path, Len(result.path)) - 1, MaxPlan)

\* a path is returned whose first step had a dearer rule with the same
\* precondition outcome and the same effect
C6_Witness ==
  /\ Returned /\ hname = "zero" /\ result.path # <<>>
  /\ \E k \in 1..Len(Crafting.Recipes) :
       LET r == Crafting.Recipes[k]
       IN /\ check(r, state) = "True"
          /\ effect(r, state) = result.path[1][1]
          /\ r.Time > RuleNamed(result.path[1][2]).Time

\* C7: along a returned path the recorded cost of each state is the sum of the
\* costs of the rules applied up to it, it does not decrease from step to
\* step, and the cost reported on success is the sum of the path's costs.
C7_RecordedCostIsSum ==
  Returned =>
    LET p == result.path
    IN /\ \A i \in 1..Len(p) :
            /\ path_cost[p[i][1]] = CostUpTo(p, i)
            /\ path_cost[Before(p, i)] <= path_cost[p[i][1]]
       /\ curr_cost = CostUpTo(p, Len(p))

\* C8: a loop test that finds the deadline elapsed ends the search FAILED with
\* the 'no plan' value and pops nothing; nothing happens after FAILED; with a
\* zero budget the search fails at its first test, the seeded queue untouched.
C8_DeadlineEndsSearch ==
  [][/\ (pc = "loop" /\ vars' # vars /\ now' - start_time >= limit) =>
          /\ pc' = "failed" /\ result' = NoPlan /\ error' = "none"
          /\ UNCHANGED <<queue, pred, pred_actions, path_cost, visited_count,
                         curr_cost, curr_state>>
     /\ pc = "failed" => UNCHANGED vars
     /\ (limit = 0 /\ pc = "loop") =>
          /\ pc' \in {"loop", "failed"}
          /\ queue = <<[prio |-> 0, state |-> state]>>
          /\ visited_count' = 1]_vars

\* a search with no budget has failed although its initial state is a goal
C8_Witness ==
  /\ pc = "failed" /\ limit = 0 /\ GoalHolds(state)
  /\ result = NoPlan /\ visited_count = 1

\* the states a search holds: the keys of its tables, the predecessors, the
\* states in the queue and the popped state
SearchStates ==
  (DOMAIN pred) \cup (DOMAIN pred_actions) \cup (DOMAIN path_cost)
    \cup {pred[s] : s \in DOMAIN pred}
    \cup {queue[i].state : i \in 1..Len(queue)} \cup {curr_state, state}

\* the triples a direct call of graph has yielded so far, in both calls
CallYields ==
  {call.out1[i] : i \in 1..Len(call.out1)} \cup {call.out2[i] : i \in 1..Len(call.out2)}

\* C9: the effect of a rule on a state with no negative quantity that passes
\* the rule's check has no negative quantity, and so no state a search records
\* or queues has one.
C9_NoNegativeQuantity ==
  /\ \A t \in CallYields : NonNegative(t[2])
  /\ (pc = "expand" /\ ri <= Len(all_recipes) /\ Gen.yields) => NonNegative(new_state)
  /\ \A s \in SearchStates : NonNegative(s)

\* a direct call has yielded a state in which a consumed item is down to 0
C9_Witness ==
  /\ pc = "graph_done"
  /\ \E t \in CallYields :
       \E i \in 1..Len(call.arg) :
         call.arg[i][2] > 0 /\ Qty(t[2], call.arg[i][1]) = 0


\* the triples graph yields for the recipes at positions 1..n: one for each
\* recipe whose check returns True, in the order of the catalog
RECURSIVE Yielded(_, _, _)
Yielded(recipes, s, n) ==
  IF n = 0 THEN <<>>
  ELSE IF check(recipes[n].rule, s) = "True"
       THEN Append(Yielded(recipes, s, n - 1),
                   <<recipes[n].name, effect(recipes[n].rule, s), recipes[n].cost>>)
       ELSE Yielded(recipes, s, n - 1)

Malformed(rule, items) ==
  LET declared == {items[i] : i \in 1..Len(items)}
  IN \/ \E i \in 1..Len(rule.Requires) : rule.Requires[i] \notin declared
     \/ \E i \in 1..Len(rule.Consumes) : rule.Consumes[i][1] \notin declared

HasMalformedRule ==
  \E k \in 1..Len(Crafting.Recipes) : Malformed(Crafting.Recipes[k], Crafting.Items)

\* C11: a rule that requires or consumes an undeclared item is rejected when
\* the rules are compiled: the program gets no further than the main block
\* with it, and no check inside a search fails on a missing item.
C11_MalformedRuleRejected ==
  HasMalformedRule =>
    /\ pc = "main"
    /\ all_recipes = <<>>
    /\ error # "KeyError"

\* the tiers of each tool class, lowest first
Tiers ==
  <<<<"wooden_pickaxe", "stone_pickaxe", "iron_pickaxe">>,
    <<"wooden_axe", "stone_axe", "iron_axe">>>>

\* the state holds a tool of a higher tier than one the action names
LowerTierNamed(act, st) ==
  \E c \in 1..Len(Tiers) :
    \E lo \in 1..Len(Tiers[c]), hi \in 1..Len(Tiers[c]) :
      /\ lo < hi
      /\ Qty(st, Tiers[c][hi]) >= 1
      /\ InAction(Tiers[c][lo], act)

\* C12: heuristic returns infinite for every transition whose state holds a
\* pickaxe or axe of a strictly higher tier than one the action names; no
\* earlier test of the function gives such a transition the estimate 0.
C12_LowerTierIsInfinite ==
  (pc = "heuristic_returned" /\ LowerTierNamed(call.action, call.arg))
    => call.out = "inf"

\* the state holds more than one unit of a tool the action does not name
SpareToolHeld(act, st) ==
  \E k \in 1..Len(tools) :
    Qty(st, tools[k]) > 1 /\ ~InAction(tools[k], act)

\* C13: heuristic returns infinite whenever the state holds more than one
\* unit of any of the eight tools and the action is not the acquisition of
\* that tool, whatever the order of the tool list and whichever other tool
\* names occur in the action.
C13_SpareToolIsInfinite ==
  (pc = "heuristic_returned" /\ SpareToolHeld(call.action, call.arg))
    => call.out = "inf"

\* the record of a state in the three tables
Record(s) == <<path_cost[s], pred[s], pred_actions[s]>>

\* the entry being expanded is stale: its priority is above the recorded cost
StaleEntry == pc = "expand" /\ curr_cost > path_cost[curr_state]

\* C14: the recorded cost of a state never increases from one step to the
\* next, its recorded predecessor and action change only in a step in which
\* its recorded cost strictly decreases, and processing a stale queue entry
\* overwrites the record of no state.
C14_RecordsOnlyImprove ==
  [][/\ \A s \in DOMAIN path_cost :
          /\ s \in DOMAIN path_cost'
          /\ path_cost'[s] <= path_cost[s]
          /\ (pred'[s] # pred[s] \/ pred_actions'[s] # pred_actions[s])
               => path_cost'[s] < path_cost[s]
     /\ StaleEntry =>
          \A s \in DOMAIN path_cost : Record(s)' = Record(s)]_vars

\* the search has been set up
Searching ==
  pc \in {"loop", "popped", "expand", "create_path", "succeeded", "failed",
          "crashed"}

\* the states met by following pred from s, for at most n links, s first
RECURSIVE Chain(_, _)
Chain(s, n) ==
  IF s = state \/ n = 0 \/ s \notin DOMAIN pred THEN <<s>>
  ELSE <<s>> \o Chain(pred[s], n - 1)

ChainOf(s) == Chain(s, Cardinality(DOMAIN pred))

\* C15: following the predecessor links from any recorded state visits no
\* state twice and arrives at the initial state, so the walk of create_path
\* ends: the links still to follow from its cursor and the actions already
\* collected add up to the length of the chain of the goal state.
C15_PredChainReachesInitial ==
  Searching =>
    /\ \A s \in DOMAIN pred :
         LET c == ChainOf(s)
         IN /\ c[Len(c)] = state
            /\ \A i \in 1..Len(c), j \in 1..Len(c) : i # j => c[i] # c[j]
            /\ \A i \in 1..Len(c) : (pred_actions[c[i]] = None) <=> (i = Len(c))
    /\ pc = "create_path" =>
         /\ last_state \in DOMAIN pred
         /\ Len(path) + Len(ChainOf(last_state)) = Len(ChainOf(curr_state))

\* a plan of two rules was returned although a rule leads from a recorded
\* state back to the initial state
C15_Witness ==
  /\ pc = "succeeded"
  /\ Len(result.path) >= 2
  /\ \E s \in DOMAIN pred, k \in 1..Len(all_recipes) :
       /\ s # state
       /\ GraphAt(all_recipes, s, k).yields
       /\ GraphAt(all_recipes, s, k).triple[2] = state

\* the recorded states other than the initial one
Reached == (DOMAIN pred) \ {state}

C17_TablesAgree ==
  Searching =>
    /\ DOMAIN pred = DOMAIN pred_actions
    /\ DOMAIN pred = DOMAIN path_cost
    /\ state \in DOMAIN pred
    /\ \A s \in Reached :
         /\ pred[s] # None
         /\ pred[s] \in DOMAIN pred
         /\ pred_actions[s] # None
    /\ \A i \in 1..Len(queue) : queue[i].state \in DOMAIN pred

\* three states are recorded and two entries wait in the queue
C17_Witness ==
  /\ pc = "loop"
  /\ Cardinality(DOMAIN pred) >= 3
  /\ Len(queue) >= 2
  /\ \E i \in 1..Len(queue) : queue[i].state # state

\* the amount a rule's Produces or Consumes gives for an item, 0 if none
Amount(pairs, item) ==
  IF \E i \in 1..Len(pairs) : pairs[i][1] = item
  THEN pairs[CHOOSE i \in 1..Len(pairs) : pairs[i][1] = item][2]
  ELSE 0

\* t is s with the rule's produced amounts added and its consumed amounts
\* taken off, the items of s in their places and the new items after them
Applied(rule, s, t) ==
  /\ \A k \in 1..Len(ItemOrder) :
       Qty(t, ItemOrder[k]) =
         Qty(s, ItemOrder[k]) + Amount(rule.Produces, ItemOrder[k])
                              - Amount(rule.Consumes, ItemOrder[k])
  /\ Len(t) >= Len(s)
  /\ \A i \in 1..Len(s) : t[i][1] = s[i][1]
  /\ \A i \in (Len(s) + 1)..Len(t) :
       /\ ~Has(s, t[i][1])
       /\ Amount(rule.Produces, t[i][1]) > 0

\* graph is about to call effect on the state being expanded
EffectInSearch == pc = "expand" /\ ri <= Len(all_recipes) /\ Gen.yields

\* graph, called directly, is about to call effect on its argument
EffectInCall == pc = "graph" /\ call.pos <= Len(all_recipes) /\ CallGen.yields

\* C18: effect leaves the state it is given unchanged and returns a new state
\* equal to it except that each produced item is increased and each consumed
\* item decreased by the rule's amount (an item both produced and consumed
\* gets both); no state stored in the tables or the queue is modified by a
\* later step.
C18_EffectLeavesInputAlone ==
  [][/\ EffectInSearch =>
          /\ curr_state' = curr_state
          /\ Applied(all_recipes[ri].rule, curr_state, new_state)
     /\ EffectInCall =>
          /\ call'.arg = call.arg
          /\ Applied(all_recipes[call.pos].rule, call.arg, CallGen.triple[2])
     /\ \A s \in DOMAIN pred : s \in DOMAIN pred'
     /\ \A i \in 1..Len(queue) :
          \/ \E j \in 1..Len(queue') : queue'[j] = queue[i]
          \/ curr_state' = queue[i].state /\ curr_cost' = queue[i].prio]_vars

\* a rule that consumes and produces the same item was applied to the state
\* being expanded, and the state it returned is recorded with that state as
\* its predecessor
C18_Witness ==
  /\ pc = "expand"
  /\ ri > 1
  /\ LET r == all_recipes[ri - 1].rule
     IN /\ \E i \in 1..Len(r.Consumes) : Amount(r.Produces, r.Consumes[i][1]) > 0
        /\ check(r, curr_state) = "True"
        /\ effect(r, curr_state) \in DOMAIN pred
        /\ pred[effect(r, curr_state)] = curr_state
        /\ effect(r, curr_state) # curr_state

\* C19: once the search is set up the record of the initial state stays as
\* seeded, cost 0 with predecessor None and action None, also when rules lead
\* back to the initial state.
C19_InitialRecordKept ==
  Searching =>
    /\ state \in DOMAIN pred
    /\ path_cost[state] = 0
    /\ pred[state] = None
    /\ pred_actions[state] = None

\* the for loop has just handled a transition from another recorded state
\* back to the initial state
C19_Witness ==
  /\ pc = "expand"
  /\ ri > 1
  /\ curr_state # state
  /\ GraphAt(all_recipes, curr_state, ri - 1).yields
  /\ GraphAt(all_recipes, curr_state, ri - 1).triple[2] = state

\* C20: when the initial state satisfies the goal, the search never expands a
\* state or fails on the queue, and once the first deadline test has passed
\* it returns the empty path: length 0, reported cost 0, nothing recorded but
\* the initial state, and a result that is not the 'no plan' result.
C20_GoalAtStartGivesEmptyPath ==
  (Searching /\ GoalHolds(state)) =>
    /\ pc \in {"loop", "popped", "create_path", "succeeded", "failed"}
    /\ DOMAIN pred = {state}
    /\ pc = "failed" => (result = NoPlan /\ visited_count = 1)
    /\ pc \in {"popped", "create_path", "succeeded"} =>
         /\ visited_count = 2
         /\ curr_state = state
         /\ curr_cost = 0
         /\ path = <<>>
    /\ pc = "succeeded" =>
         /\ result.kind = "path"
         /\ Len(result.path) = 0
         /\ result # NoPlan

\* the search has returned the empty path for an initial state that satisfies
\* the goal
C20_Witness ==
  /\ pc = "succeeded"
  /\ GoalHolds(state)
  /\ result.path = <<>>
  /\ limit > 0

====
